---------------------------- MODULE Spec2Model ----------------------------
(***************************************************************************)
(* A model of the goset library: the unsynchronized set engines (simple,  *)
(* resolving, priority) and the reader-writer-lock wrapper safeSet.        *)
(***************************************************************************)
EXTENDS Integers, Sequences, FiniteSets, TLC

(***************************************************************************)
(* Bounds of the model.                                                    *)
(***************************************************************************)
\* IDs and Importances of the keyed elements range over 1..MaxVal
MaxVal == 2
\* the elements of the simple sets are the integers 1..MaxInt
MaxInt == 3
\* the longest variadic argument list of one Add / Remove / Contains call
MaxArgs == 2
\* the longest insertion sequence followed by the Add-only specification
MaxHist == 3
\* the elements of the synchronized sets are the integers 1..MaxElem
MaxElem == 1
\* the threads calling into the synchronized sets
NumThreads == 2

IDs == 1..MaxVal
Importances == 1..MaxVal
Names == {"One", "Uno"}
Ints == 1..MaxInt

\* TestType values; Name distinguishes two items of one ID and Importance
TestType == [ID : IDs, Importance : Importances, Name : Names]
\* the items the engine specification feeds in: per ID, the least and the
\* greatest Importance under one Name
testItems == {e \in TestType : e.Name = "One" /\ e.Importance \in {1, MaxVal}}

\* the three unsynchronized engines
Kinds == {"simple", "resolving", "priority"}

\* the element type of a set of the given engine
ElemsOf(k) == IF k = "simple" THEN Ints ELSE TestType

\* the argument lists of one variadic call, drawn from S
ArgLists(S) == UNION {[1..n -> S] : n \in 0..MaxArgs}

\* no value: the zero value a failed Pop returns, and "no result yet"
None == "none"

(***************************************************************************)
(* Go's built-in map, as a function from the present keys.                 *)
(***************************************************************************)
EmptyMap == <<>>

MapPut(m, k, v) == [x \in (DOMAIN m) \cup {k} |-> IF x = k THEN v ELSE m[x]]

MapDelete(m, k) == [x \in (DOMAIN m) \ {k} |-> m[x]]

MapLen(m) == Cardinality(DOMAIN m)

\* the value every key of an unsafeSimpleSet maps to
EmptyStruct == "struct{}"

(***************************************************************************)
(* Key extraction and resolution policies.                                 *)
(***************************************************************************)
\* the key getter the tests and the README construct keyed sets with
keyGetter(item) == item.ID

\* the key of an element in a set of the given engine
KeyOf(k, e) == IF k = "simple" THEN e ELSE keyGetter(e)

\* a resolver that replaces on equal Importance as well
resolverGE(foundItem, newItem) ==
    IF newItem.Importance >= foundItem.Importance
    THEN [item |-> newItem, ok |-> TRUE]
    ELSE [item |-> foundItem, ok |-> FALSE]

\* the Resolver of the tests: (chosen item, replaced?)
resolver(foundItem, newItem) ==
    IF newItem.Importance > foundItem.Importance
    THEN [item |-> newItem, ok |-> TRUE]
    ELSE [item |-> foundItem, ok |-> FALSE]

\* the Comparator of the README: positive when the new item wins
comparator(foundItem, newItem) ==
    IF newItem.Importance > foundItem.Importance THEN 1
    ELSE IF foundItem = newItem THEN 0
    ELSE -1

(***************************************************************************)
(* unsafeSimpleSet                                                         *)
(***************************************************************************)
RECURSIVE simpleAddFrom(_, _, _)
simpleAddFrom(m, v, i) ==
    IF i > Len(v) THEN m
    ELSE simpleAddFrom(MapPut(m, v[i], EmptyStruct), v, i + 1)

\* unsafeSimpleSet.add
simpleAdd(m, v) == simpleAddFrom(m, v, 1)

\* an Add that reports whether it was given anything
SimpleAddAnyArg(m, v) ==
    [set |-> simpleAdd(m, v), ret |-> Len(v) > 0]

\* unsafeSimpleSet.Add: the new map and the returned boolean
SimpleAdd(m, v) ==
    LET prevLen == MapLen(m)
        after == simpleAdd(m, v)
    IN  [set |-> after, ret |-> prevLen # MapLen(after)]

RECURSIVE simpleRemoveFrom(_, _, _)
simpleRemoveFrom(m, v, i) ==
    IF i > Len(v) THEN m
    ELSE simpleRemoveFrom(MapDelete(m, v[i]), v, i + 1)

\* unsafeSimpleSet.Remove
SimpleRemove(m, v) == simpleRemoveFrom(m, v, 1)

(***************************************************************************)
(* unsafeResolvingSet                                                      *)
(***************************************************************************)
RECURSIVE resolvingAddFrom(_, _, _, _, _)
resolvingAddFrom(m, hasRes, v, i, r) ==
    IF i > Len(v) THEN [set |-> m, ret |-> r]
    ELSE LET val == v[i]
             key == keyGetter(val)
             ok == key \in DOMAIN m
         IN  IF ok /\ hasRes
             THEN LET res == resolver(m[key], val)
                  IN  IF res.ok
                      THEN resolvingAddFrom(MapPut(m, key, res.item), hasRes, v, i + 1, TRUE)
                      ELSE resolvingAddFrom(m, hasRes, v, i + 1, r)
             ELSE IF ~ok
             THEN resolvingAddFrom(MapPut(m, key, val), hasRes, v, i + 1, TRUE)
             ELSE resolvingAddFrom(m, hasRes, v, i + 1, r)

\* an Add that consults the resolver policy even when none was supplied
ResolvingAddAlwaysResolves(m, hasRes, v) == resolvingAddFrom(m, TRUE, v, 1, FALSE)

\* unsafeResolvingSet.Add: the new map and the returned boolean
ResolvingAdd(m, hasRes, v) == resolvingAddFrom(m, hasRes, v, 1, FALSE)

RECURSIVE keyedRemoveFrom(_, _, _)
keyedRemoveFrom(m, v, i) ==
    IF i > Len(v) THEN m
    ELSE keyedRemoveFrom(MapDelete(m, keyGetter(v[i])), v, i + 1)

RECURSIVE keyedRemoveIfSameFrom(_, _, _)
keyedRemoveIfSameFrom(m, v, i) ==
    IF i > Len(v) THEN m
    ELSE LET key == keyGetter(v[i])
         IN  IF key \in DOMAIN m /\ m[key] = v[i]
             THEN keyedRemoveIfSameFrom(MapDelete(m, key), v, i + 1)
             ELSE keyedRemoveIfSameFrom(m, v, i + 1)

\* a Remove that deletes a key only when the stored payload is the argument
ResolvingRemoveIfSame(m, v) == keyedRemoveIfSameFrom(m, v, 1)

\* unsafeResolvingSet.Remove
ResolvingRemove(m, v) == keyedRemoveFrom(m, v, 1)

(***************************************************************************)
(* unsafePrioritySet                                                       *)
(***************************************************************************)
RECURSIVE priorityAddFrom(_, _, _, _, _)
priorityAddFrom(m, hasCmp, v, i, r) ==
    IF i > Len(v) THEN [set |-> m, ret |-> r]
    ELSE LET val == v[i]
             key == keyGetter(val)
             ok == key \in DOMAIN m
         IN  IF ~ok \/ (hasCmp /\ comparator(m[key], val) > 0)
             THEN priorityAddFrom(MapPut(m, key, val), hasCmp, v, i + 1, TRUE)
             ELSE priorityAddFrom(m, hasCmp, v, i + 1, r)

\* unsafePrioritySet.Add: the new map and the returned boolean
PriorityAdd(m, hasCmp, v) == priorityAddFrom(m, hasCmp, v, 1, FALSE)

\* unsafePrioritySet.Remove
PriorityRemove(m, v) == keyedRemoveFrom(m, v, 1)

(***************************************************************************)
(* The Set interface over the three engines.                               *)
(***************************************************************************)
\* Set.Add
EngineAdd(k, has, m, v) ==
    CASE k = "simple" -> SimpleAdd(m, v)
      [] k = "resolving" -> ResolvingAdd(m, has, v)
      [] k = "priority" -> PriorityAdd(m, has, v)

\* a Remove that deletes nothing
EngineRemoveNone(k, m, v) == m

\* Set.Remove
EngineRemove(k, m, v) ==
    CASE k = "simple" -> SimpleRemove(m, v)
      [] k = "resolving" -> ResolvingRemove(m, v)
      [] k = "priority" -> PriorityRemove(m, v)

\* Set.Len
EngineLen(m) == MapLen(m)

\* Set.Clear
EngineClear == EmptyMap

\* the element a range over the map yields at key x
ElemAt(k, m, x) == IF k = "simple" THEN x ELSE m[x]

\* Set.ToSlice, as the set of the elements of the slice
EngineElems(k, m) == {ElemAt(k, m, x) : x \in DOMAIN m}

(***************************************************************************)
(* State.                                                                  *)
(***************************************************************************)
VARIABLES
    kind,          \* the engine of the set under test
    hasResolver,   \* whether it was constructed with a resolver / comparator
    set,           \* its key -> element map
    lastOp,        \* the operation called last
    ret,           \* what that operation returned
    prevLen,       \* Len() before that operation
    first,         \* per present key, the first element added since the key was last absent
    mismatch,      \* whether an argument of the last call met its key stored with another payload
    hist,          \* the elements inserted so far, in order
    sets,          \* per synchronized set, the map of the engine it wraps
    rw,            \* per synchronized set, the state of its embedded RWMutex
    pc,            \* per thread, where it stands in its current call
    call,          \* per thread, the call it is in
    snap,          \* per thread in a binary engine call, the operands' maps as first read
    role,          \* per thread, the calls it makes
    mx,            \* a Set value of some variant
    my,            \* another Set value of some variant
    mu,            \* the Set value the first call on mx and my returned
    mcalls,        \* the calls made on mx, my and mu, with what they came to
    ch,            \* the buffer of the channel Iter returned
    chCap,         \* its capacity
    gpc,           \* where the goroutine Iter started is
    gelem,         \* the element the goroutine's range yielded last
    visited,       \* the keys the goroutine's range has yielded
    delivered,     \* the elements received from the channel, in order
    iterSnap,      \* the set's elements when Iter was called
    raced,         \* the goroutine read the map while a write lock was held
    heap,          \* the maps of the engines x, y and r, by address
    hrefs,         \* the engines x, y and r: policies and address of the map
    hlast          \* the last call on them: its kind and its receiver

engineVars == <<kind, hasResolver, set, lastOp, ret, prevLen, first, mismatch, hist>>
safeVars == <<sets, rw, pc, call, snap, role>>
mixVars == <<mx, my, mu, mcalls>>
iterVars == <<ch, chCap, gpc, gelem, visited, delivered, iterSnap, raced>>
heapVars == <<heap, hrefs, hlast>>
vars == <<engineVars, safeVars, mixVars, iterVars, heapVars>>

\* the engine variables of a specification that has no set under test
NoEngine ==
    /\ kind = "simple"
    /\ hasResolver = FALSE
    /\ set = <<>>
    /\ lastOp = "new"
    /\ ret = "none"
    /\ prevLen = 0
    /\ first = <<>>
    /\ mismatch = FALSE
    /\ hist = <<>>

\* the wrapper variables of a specification that has no synchronized set
NoSafe ==
    /\ sets = <<>>
    /\ rw = <<>>
    /\ pc = <<>>
    /\ call = <<>>
    /\ snap = <<>>
    /\ role = <<>>

\* the Set values of a specification that makes no calls across variants
NoMix ==
    /\ mx = <<>>
    /\ my = <<>>
    /\ mu = <<>>
    /\ mcalls = <<>>

\* no Iter has been called
NoIter ==
    /\ ch = <<>>
    /\ chCap = 0
    /\ gpc = "none"
    /\ gelem = None
    /\ visited = {}
    /\ delivered = <<>>
    /\ iterSnap = {}
    /\ raced = FALSE

\* no engine is followed by address
NoHeap ==
    /\ heap = <<>>
    /\ hrefs = <<>>
    /\ hlast = <<>>

\* the reference key set: a key is present iff it was added since it was last deleted
refKeys == DOMAIN first

RECURSIVE firstAfterAdd(_, _, _, _)
firstAfterAdd(f, k, v, i) ==
    IF i > Len(v) THEN f
    ELSE IF KeyOf(k, v[i]) \in DOMAIN f
         THEN firstAfterAdd(f, k, v, i + 1)
         ELSE firstAfterAdd(MapPut(f, KeyOf(k, v[i]), v[i]), k, v, i + 1)

\* some argument's key is stored in m with a payload other than the argument
PayloadDiffers(k, m, v) ==
    \E i \in 1..Len(v) :
        /\ KeyOf(k, v[i]) \in DOMAIN m
        /\ ElemAt(k, m, KeyOf(k, v[i])) # v[i]

firstWithout(f, keys) == [x \in (DOMAIN f) \ keys |-> f[x]]

Init ==
    /\ kind \in Kinds
    /\ hasResolver \in (IF kind = "simple" THEN {FALSE} ELSE BOOLEAN)
    /\ set = EmptyMap
    /\ lastOp = "new"
    /\ ret = None
    /\ prevLen = 0
    /\ first = EmptyMap
    /\ mismatch = FALSE
    /\ hist = <<>>
    /\ NoSafe
    /\ NoMix
    /\ NoIter
    /\ NoHeap

\* the argument lists the engine specification calls Add and Remove with
IntArgLists == ArgLists(Ints)
ItemArgLists == ArgLists(testItems)
InputLists == IF kind = "simple" THEN IntArgLists ELSE ItemArgLists

Add ==
    \E v \in InputLists :
        LET res == EngineAdd(kind, hasResolver, set, v)
        IN  /\ set' = res.set
            /\ ret' = res.ret
            /\ lastOp' = "Add"
            /\ prevLen' = EngineLen(set)
            /\ first' = firstAfterAdd(first, kind, v, 1)
            /\ mismatch' = PayloadDiffers(kind, set, v)
            /\ UNCHANGED <<kind, hasResolver, hist, safeVars, mixVars, iterVars, heapVars>>

Remove ==
    \E v \in InputLists :
        /\ set' = EngineRemove(kind, set, v)
        /\ ret' = None
        /\ lastOp' = "Remove"
        /\ prevLen' = EngineLen(set)
        /\ first' = firstWithout(first, {KeyOf(kind, v[i]) : i \in 1..Len(v)})
        /\ mismatch' = PayloadDiffers(kind, set, v)
        /\ UNCHANGED <<kind, hasResolver, hist, safeVars, mixVars, iterVars, heapVars>>

Pop ==
    \/ /\ set = EmptyMap
       /\ ret' = [elem |-> None, found |-> FALSE]
       /\ lastOp' = "Pop"
       /\ prevLen' = EngineLen(set)
       /\ mismatch' = FALSE
       /\ UNCHANGED <<kind, hasResolver, set, first, hist, safeVars, mixVars, iterVars, heapVars>>
    \/ \E x \in DOMAIN set :
        LET elem == ElemAt(kind, set, x)
        IN  /\ set' = EngineRemove(kind, set, <<elem>>)
            /\ ret' = [elem |-> elem, found |-> TRUE]
            /\ lastOp' = "Pop"
            /\ prevLen' = EngineLen(set)
            /\ first' = firstWithout(first, {KeyOf(kind, elem)})
            /\ mismatch' = FALSE
            /\ UNCHANGED <<kind, hasResolver, hist, safeVars, mixVars, iterVars, heapVars>>

Clear ==
    /\ set' = EngineClear
    /\ ret' = None
    /\ lastOp' = "Clear"
    /\ prevLen' = EngineLen(set)
    /\ first' = EmptyMap
    /\ mismatch' = FALSE
    /\ UNCHANGED <<kind, hasResolver, hist, safeVars, mixVars, iterVars, heapVars>>

Next == Add \/ Remove \/ Pop \/ Clear

Spec == Init /\ [][Next]_vars

(***************************************************************************)
(* The Add-only specification: a keyed set with the Importance policy,     *)
(* fed an insertion sequence of at most MaxHist elements.                  *)
(***************************************************************************)
InitAdd ==
    /\ kind \in {"resolving", "priority"}
    /\ hasResolver = TRUE
    /\ set = EmptyMap
    /\ lastOp = "new"
    /\ ret = None
    /\ prevLen = 0
    /\ first = EmptyMap
    /\ mismatch = FALSE
    /\ hist = <<>>
    /\ NoSafe
    /\ NoMix
    /\ NoIter
    /\ NoHeap

\* one Add call of the insertion sequence; hist records what it was given
AddItems ==
    \E n \in 0..MaxArgs :
        /\ Len(hist) + n <= MaxHist
        /\ \E v \in [1..n -> TestType] :
              /\ set' = EngineAdd(kind, hasResolver, set, v).set
              /\ hist' = hist \o v
              /\ UNCHANGED <<kind, hasResolver, lastOp, ret, prevLen, first, mismatch, safeVars, mixVars, iterVars, heapVars>>

NextAdd == AddItems

SpecAdd == InitAdd /\ [][NextAdd]_vars

(***************************************************************************)
(* safeSet: one engine and one embedded sync.RWMutex per set.              *)
(***************************************************************************)
\* the synchronized sets, built with NewSet
Objs == {"A", "B"}
Elems == 1..MaxElem
Threads == 1..NumThreads

Ops == {"Add", "Len", "Clear", "Clone", "Contains", "Each", "Diff",
        "SymmetricDiff", "Equal", "Intersect", "IsSubset", "IsProperSubset",
        "IsSuperset", "IsProperSuperset", "Iter", "Pop", "Remove", "Union",
        "ToSlice", "String"}
Mutators == {"Add", "Remove", "Pop", "Clear"}
BinaryOps == {"Diff", "SymmetricDiff", "Equal", "Intersect", "IsSubset",
              "IsProperSubset", "IsSuperset", "IsProperSuperset", "Union"}

\* a wrapper in which Add takes the shared lock
LockModeAddShared(op) ==
    CASE op \in {"Clear", "Pop", "Remove"} -> "Lock"
      [] op \in {"Add", "Len", "Clone", "Contains", "Each", "Iter", "ToSlice", "String"} -> "RLock"
      [] op \in {"Diff", "SymmetricDiff", "Equal", "Intersect", "IsSubset",
                 "IsProperSubset", "Union"} -> "RLockBoth"
      [] OTHER -> "delegate"

\* a wrapper in which Diff locks its receiver only
LockModeDiffReceiverOnly(op) ==
    CASE op \in {"Add", "Clear", "Pop", "Remove"} -> "Lock"
      [] op \in {"Diff", "Len", "Clone", "Contains", "Each", "Iter", "ToSlice", "String"} -> "RLock"
      [] op \in {"SymmetricDiff", "Equal", "Intersect", "IsSubset",
                 "IsProperSubset", "Union"} -> "RLockBoth"
      [] OTHER -> "delegate"

\* what each safeSet method does with the locks before it calls the engine
LockMode(op) ==
    CASE op \in {"Add", "Clear", "Pop", "Remove"} -> "Lock"
      [] op \in {"Len", "Clone", "Contains", "Each", "Iter", "ToSlice", "String"} -> "RLock"
      [] op \in {"Diff", "SymmetricDiff", "Equal", "Intersect", "IsSubset",
                 "IsProperSubset", "Union"} -> "RLockBoth"
      [] OTHER -> "delegate"

\* the method that ends up locking: IsSuperset and IsProperSuperset call
\* other.IsSubset(s) and other.IsProperSubset(s)
Callee(op, s, o) ==
    CASE op = "IsSuperset" -> [op |-> "IsSubset", s |-> o, o |-> s]
      [] op = "IsProperSuperset" -> [op |-> "IsProperSubset", s |-> o, o |-> s]
      [] OTHER -> [op |-> op, s |-> s, o |-> o]

\* the call a thread is in: how it locks, what its engine call touches
CallOf(op, s, o) ==
    LET c == Callee(op, s, o)
    IN  [mode |-> LockMode(c.op),
         mut |-> c.op \in Mutators,
         bin |-> c.op \in BinaryOps,
         s |-> c.s,
         o |-> IF c.op \in BinaryOps THEN c.o ELSE c.s]

NoCall == [mode |-> "none", mut |-> FALSE, bin |-> FALSE, s |-> "A", o |-> "A"]

(***************************************************************************)
(* sync.RWMutex: readers per thread, the writer that called Lock, and      *)
(* whether that writer has the lock.  A writer that called Lock keeps new  *)
(* readers out while it waits for the present readers to leave.            *)
(***************************************************************************)
NoThread == 0

NewRWMutex(T) == [readers |-> [t \in T |-> 0], writer |-> NoThread, locked |-> FALSE]

\* an RLock that lets readers in while a writer is still waiting
CanRLockWhileWriterWaits(l) == ~l.locked

CanRLock(l) == l.writer = NoThread

RLock(l, t) == [l EXCEPT !.readers[t] = @ + 1]

RUnlock(l, t) == [l EXCEPT !.readers[t] = @ - 1]

CanLock(l) == l.writer = NoThread

\* Lock, first half: the writer announces itself
LockAnnounce(l, t) == [l EXCEPT !.writer = t]

\* Lock, second half: the writer has the lock once no reader holds it
CanLockAcquire(l, t) ==
    /\ l.writer = t
    /\ ~l.locked
    /\ \A u \in DOMAIN l.readers : l.readers[u] = 0

LockAcquire(l) == [l EXCEPT !.locked = TRUE]

Unlock(l) == [l EXCEPT !.writer = NoThread, !.locked = FALSE]

\* the locks thread t holds
Holds(t, o) == rw[o].readers[t] > 0 \/ (rw[o].writer = t /\ rw[o].locked)

(***************************************************************************)
(* The calls of the threads.                                               *)
(***************************************************************************)
\* what the threads of the opposed-order scenario call
Allowed(t, c) ==
    CASE role[t] = "any" -> TRUE
      [] role[t] = "A.op(B)" -> c.bin /\ c.s = "A" /\ c.o = "B"
      [] role[t] = "B.op(A)" -> c.bin /\ c.s = "B" /\ c.o = "A"
      [] role[t] = "write A" -> c.mut /\ c.s = "A"
      [] role[t] = "write B" -> c.mut /\ c.s = "B"
      [] role[t] = "A.op(A)" -> c.bin /\ c.s = "A" /\ c.o = "A"
      [] role[t] = "Iter A" -> c.mode = "RLock" /\ ~c.mut /\ c.s = "A"

\* a thread enters a method and takes (or, for Lock, announces) its first lock
Call(t) ==
    /\ pc[t] = "idle"
    /\ \E op \in Ops, s \in Objs, o \in Objs :
        LET c == CallOf(op, s, o)
        IN  /\ Allowed(t, c)
            /\ call' = [call EXCEPT ![t] = c]
            /\ CASE c.mode = "Lock" ->
                      /\ CanLock(rw[c.s])
                      /\ rw' = [rw EXCEPT ![c.s] = LockAnnounce(@, t)]
                      /\ pc' = [pc EXCEPT ![t] = "Lock"]
                 [] c.mode = "RLock" ->
                      /\ CanRLock(rw[c.s])
                      /\ rw' = [rw EXCEPT ![c.s] = RLock(@, t)]
                      /\ pc' = [pc EXCEPT ![t] = "engine"]
                 [] c.mode = "RLockBoth" ->
                      /\ CanRLock(rw[c.s])
                      /\ rw' = [rw EXCEPT ![c.s] = RLock(@, t)]
                      /\ pc' = [pc EXCEPT ![t] = "o.RLock"]
    /\ UNCHANGED <<sets, snap, role, engineVars, mixVars, iterVars, heapVars>>

\* s.Lock() returns
LockReturns(t) ==
    /\ pc[t] = "Lock"
    /\ CanLockAcquire(rw[call[t].s], t)
    /\ rw' = [rw EXCEPT ![call[t].s] = LockAcquire(@)]
    /\ pc' = [pc EXCEPT ![t] = "engine"]
    /\ UNCHANGED <<sets, call, snap, role, engineVars, mixVars, iterVars, heapVars>>

\* o.RLock() returns
OperandRLock(t) ==
    /\ pc[t] = "o.RLock"
    /\ CanRLock(rw[call[t].o])
    /\ rw' = [rw EXCEPT ![call[t].o] = RLock(@, t)]
    /\ pc' = [pc EXCEPT ![t] = "engine"]
    /\ UNCHANGED <<sets, call, snap, role, engineVars, mixVars, iterVars, heapVars>>

\* the engine call of a method on one set; a mutating one changes the map
EngineCall(t) ==
    /\ pc[t] = "engine"
    /\ ~call[t].bin
    /\ IF call[t].mut
       THEN \E m \in {SimpleAdd(sets[call[t].s], <<x>>).set : x \in Elems}
                     \cup {SimpleRemove(sets[call[t].s], <<x>>) : x \in Elems}
                     \cup {SimpleRemove(sets[call[t].s], <<x>>) : x \in DOMAIN sets[call[t].s]}
                     \cup {EngineClear} :
                sets' = [sets EXCEPT ![call[t].s] = m]
       ELSE UNCHANGED sets
    /\ pc' = [pc EXCEPT ![t] = "unlock"]
    /\ UNCHANGED <<rw, call, snap, role, engineVars, mixVars, iterVars, heapVars>>

\* a binary engine call starts reading its operands
EngineReadsFirst(t) ==
    /\ pc[t] = "engine"
    /\ call[t].bin
    /\ snap' = [snap EXCEPT ![t] = [s |-> sets[call[t].s], o |-> sets[call[t].o]]]
    /\ pc' = [pc EXCEPT ![t] = "engine2"]
    /\ UNCHANGED <<sets, rw, call, role, engineVars, mixVars, iterVars, heapVars>>

\* a binary engine call has read its operands to the end and returns
EngineReadsLast(t) ==
    /\ pc[t] = "engine2"
    /\ snap' = [snap EXCEPT ![t] = None]
    /\ pc' = [pc EXCEPT ![t] = IF call[t].mode = "RLockBoth" THEN "o.unlock" ELSE "unlock"]
    /\ UNCHANGED <<sets, rw, call, role, engineVars, mixVars, iterVars, heapVars>>

\* the deferred o.RUnlock(), registered last, runs first
OperandRUnlock(t) ==
    /\ pc[t] = "o.unlock"
    /\ rw' = [rw EXCEPT ![call[t].o] = RUnlock(@, t)]
    /\ pc' = [pc EXCEPT ![t] = "unlock"]
    /\ UNCHANGED <<sets, call, snap, role, engineVars, mixVars, iterVars, heapVars>>

\* the deferred s.Unlock() or s.RUnlock() runs and the method returns
UnlockAndReturn(t) ==
    /\ pc[t] = "unlock"
    /\ rw' = [rw EXCEPT ![call[t].s] =
                 IF call[t].mode = "Lock" THEN Unlock(@) ELSE RUnlock(@, t)]
    /\ pc' = [pc EXCEPT ![t] = "idle"]
    /\ call' = [call EXCEPT ![t] = NoCall]
    /\ UNCHANGED <<sets, snap, role, engineVars, mixVars, iterVars, heapVars>>

Step(t) ==
    \/ Call(t)
    \/ LockReturns(t)
    \/ OperandRLock(t)
    \/ EngineCall(t)
    \/ EngineReadsFirst(t)
    \/ EngineReadsLast(t)
    \/ OperandRUnlock(t)
    \/ UnlockAndReturn(t)

\* the wrapper variables once the sets are built and the threads started
SafeStart(T) ==
    /\ sets = [o \in Objs |-> EmptyMap]
    /\ rw = [o \in Objs |-> NewRWMutex(T)]
    /\ pc = [t \in T |-> "idle"]
    /\ call = [t \in T |-> NoCall]
    /\ snap = [t \in T |-> None]

\* threads that call any method on any pair of sets
InitSafe ==
    /\ NoEngine
    /\ NoMix
    /\ NoIter
    /\ NoHeap
    /\ SafeStart(Threads)
    /\ role = [t \in Threads |-> "any"]

NextSafe == \E t \in Threads : Step(t)

SpecSafe == InitSafe /\ [][NextSafe]_vars

\* two threads calling binary methods in opposite operand order, and a
\* writer on each of the two sets
OpposedRoles == <<"A.op(B)", "B.op(A)", "write A", "write B">>

InitOpposed ==
    /\ NoEngine
    /\ NoMix
    /\ NoIter
    /\ NoHeap
    /\ SafeStart(DOMAIN OpposedRoles)
    /\ role = OpposedRoles

NextOpposed == \E t \in DOMAIN OpposedRoles : Step(t)

SpecOpposed == InitOpposed /\ [][NextOpposed]_vars

\* two threads calling binary methods on A with A itself as operand, and a
\* writer on A
SelfRoles == <<"A.op(A)", "A.op(A)", "write A">>

InitSelf ==
    /\ NoEngine
    /\ NoMix
    /\ NoIter
    /\ NoHeap
    /\ SafeStart(DOMAIN SelfRoles)
    /\ role = SelfRoles

NextSelf == \E t \in DOMAIN SelfRoles : Step(t)

SpecSelf == InitSelf /\ [][NextSelf]_vars

(***************************************************************************)
(* Iter on a safeSet: the method runs under the shared lock, but the       *)
(* goroutine the engine's Iter starts ranges over the engine's map after   *)
(* the method has returned.  Thread 1 calls Iter and drains the channel,   *)
(* thread 2 calls Add, Remove, Pop and Clear on the same set.              *)
(***************************************************************************)
IterRoles == <<"Iter A", "write A">>

InitIter ==
    /\ NoEngine
    /\ NoMix
    /\ SafeStart(DOMAIN IterRoles)
    /\ role = IterRoles
    /\ NoIter
    /\ NoHeap

\* a write lock is held on the set for an engine call that changes the map
WriteLocked(o) ==
    \E t \in DOMAIN pc : pc[t] = "engine" /\ call[t].mut /\ call[t].s = o

\* s.Iter() is called: s.RLock()
IterCall ==
    /\ gpc = "none"
    /\ Call(1)

\* s.set.Iter(): ch := make(chan T, s.Len()); go func() {...}(); return ch
IterEngineCall ==
    /\ pc[1] = "engine"
    /\ gpc = "none"
    /\ chCap' = MapLen(sets["A"])
    /\ iterSnap' = EngineElems("simple", sets["A"])
    /\ gpc' = "range"
    /\ pc' = [pc EXCEPT ![1] = "unlock"]
    /\ UNCHANGED <<sets, rw, call, snap, role, ch, gelem, visited, delivered, raced,
                   engineVars, mixVars, heapVars>>

\* the deferred s.RUnlock() runs and Iter returns the channel
IterReturns ==
    /\ gpc # "fatal"
    /\ UnlockAndReturn(1)

\* for elem := range s.set, in the goroutine: the next entry of the map as
\* it is now, or the end of the range; a range that meets a write is a data
\* race, which the runtime may detect and abort on.  (An entry created
\* during the range may also be skipped; the model always yields it.)
ProducerRange ==
    /\ gpc = "range"
    /\ raced' = (raced \/ WriteLocked("A"))
    /\ \/ /\ WriteLocked("A")
          /\ gpc' = "fatal"
          /\ UNCHANGED <<gelem, visited, ch>>
       \/ /\ DOMAIN sets["A"] \ visited # {}
          /\ \E k \in DOMAIN sets["A"] \ visited :
                /\ gelem' = k
                /\ visited' = visited \cup {k}
          /\ gpc' = "send"
          /\ UNCHANGED ch
       \/ /\ DOMAIN sets["A"] \ visited = {}
          /\ gpc' = "done"
          /\ UNCHANGED <<gelem, visited, ch>>
    /\ UNCHANGED <<sets, rw, pc, call, snap, role, chCap, delivered, iterSnap,
                   engineVars, mixVars, heapVars>>

\* ch <- elem: into the buffer if there is room, or straight to the receiver
\* of an unbuffered channel
ProducerSend ==
    /\ gpc = "send"
    /\ IF chCap = 0
       THEN /\ pc[1] = "idle"
            /\ delivered' = Append(delivered, gelem)
            /\ UNCHANGED ch
       ELSE /\ Len(ch) < chCap
            /\ ch' = Append(ch, gelem)
            /\ UNCHANGED delivered
    /\ gpc' = "range"
    /\ UNCHANGED <<sets, rw, pc, call, snap, role, chCap, gelem, visited, iterSnap, raced,
                   engineVars, mixVars, heapVars>>

\* the caller of Iter receives from the channel
ConsumerReceives ==
    /\ pc[1] = "idle"
    /\ gpc \notin {"none", "fatal"}
    /\ ch # <<>>
    /\ delivered' = Append(delivered, Head(ch))
    /\ ch' = Tail(ch)
    /\ UNCHANGED <<sets, rw, pc, call, snap, role, chCap, gpc, gelem, visited, iterSnap,
                   raced, engineVars, mixVars, heapVars>>

\* the writer's Add, Remove, Pop or Clear, step by step
WriterCall ==
    /\ gpc # "fatal"
    /\ Call(2)

WriterLockReturns ==
    /\ gpc # "fatal"
    /\ LockReturns(2)

WriterEngineCall ==
    /\ gpc # "fatal"
    /\ EngineCall(2)

WriterReturns ==
    /\ gpc # "fatal"
    /\ UnlockAndReturn(2)

NextIter ==
    \/ IterCall
    \/ IterEngineCall
    \/ IterReturns
    \/ ProducerRange
    \/ ProducerSend
    \/ ConsumerReceives
    \/ WriterCall
    \/ WriterLockReturns
    \/ WriterEngineCall
    \/ WriterReturns

SpecIter == InitIter /\ [][NextIter]_vars

(***************************************************************************)
(* Set values: an engine, or a safeSet wrapping one.  The binary methods   *)
(* take the other operand as a Set interface value and assert its type.    *)
(***************************************************************************)
\* a Set value: sync tells a safeSet from a bare engine
NewObj(sync, k, has, m) == [sync |-> sync, kind |-> k, has |-> has, set |-> m]

\* the engine a safeSet wraps (field set)
Inner(x) == [x EXCEPT !.sync = FALSE]

\* &safeSet{set: engine}
Wrap(x) == [x EXCEPT !.sync = TRUE]

\* the dynamic type a type assertion tests
TypeOf(x) == <<x.sync, x.kind>>

NoObj == NewObj(FALSE, "none", FALSE, EmptyMap)

\* what a call came to: a panic, a Set, or a boolean; held counts the locks
\* the call took and did not release
Panicked == [panic |-> TRUE, isSet |-> FALSE, obj |-> NoObj, bool |-> FALSE, held |-> 0]
ReturnsSet(x) == [panic |-> FALSE, isSet |-> TRUE, obj |-> x, bool |-> FALSE, held |-> 0]
ReturnsBool(b) == [panic |-> FALSE, isSet |-> FALSE, obj |-> NoObj, bool |-> b, held |-> 0]

\* the elements of S in the order a range over the map happens to yield them
RECURSIVE RangeOrder(_)
RangeOrder(S) ==
    IF S = {} THEN <<>>
    ELSE LET e == CHOOSE x \in S : TRUE
         IN  <<e>> \o RangeOrder(S \ {e})

\* unsafeSimpleSet.contains
simpleContains(m, v) == v \in DOMAIN m

\* unsafeResolvingSet.contains: the key alone
resolvingContains(m, v) == keyGetter(v) \in DOMAIN m

\* unsafePrioritySet.contains: the key, and with a comparator the payload
priorityContains(m, hasCmp, v) ==
    /\ keyGetter(v) \in DOMAIN m
    /\ (~hasCmp \/ comparator(m[keyGetter(v)], v) = 0)

\* contains of the three engines
EngineContains(x, e) ==
    CASE x.kind = "simple" -> simpleContains(x.set, e)
      [] x.kind = "resolving" -> resolvingContains(x.set, e)
      [] x.kind = "priority" -> priorityContains(x.set, x.has, e)

\* a new engine with the policies of x, holding what Add makes of S
EngineOf(x, S) ==
    NewObj(FALSE, x.kind, x.has, EngineAdd(x.kind, x.has, EmptyMap, RangeOrder(S)).set)

\* x.Add(S...) on an engine value
EngineAddAll(x, S) ==
    [x EXCEPT !.set = EngineAdd(x.kind, x.has, x.set, RangeOrder(S)).set]

ElemsIn(x) == EngineElems(x.kind, x.set)

\* Clone of an engine
EngineClone(s) == EngineOf(s, ElemsIn(s))

\* Diff of two engines of one type
EngineDiff(s, o) == EngineOf(s, {e \in ElemsIn(s) : ~EngineContains(o, e)})

\* SymmetricDiff of two engines of one type
EngineSymmetricDiff(s, o) ==
    EngineAddAll(EngineDiff(o, s), {e \in ElemsIn(s) : ~EngineContains(o, e)})

\* Intersect of two engines of one type
EngineIntersect(s, o) ==
    LET smallerSet == IF MapLen(o.set) < MapLen(s.set) THEN o ELSE s
        largerSet == IF MapLen(o.set) < MapLen(s.set) THEN s ELSE o
    IN  EngineOf(s, {e \in ElemsIn(smallerSet) : EngineContains(largerSet, e)})

\* Union with the operand's elements added first and the receiver's onto them
EngineUnionOperandFirst(s, o) == EngineAddAll(EngineOf(s, ElemsIn(o)), ElemsIn(s))

\* Union of two engines of one type
EngineUnion(s, o) == EngineAddAll(EngineOf(s, ElemsIn(s)), ElemsIn(o))

\* Equal of two engines of one type
EngineEqual(s, o) ==
    IF MapLen(s.set) # MapLen(o.set) THEN FALSE
    ELSE \A e \in ElemsIn(s) : EngineContains(o, e)

\* IsSubset of two engines of one type
EngineIsSubset(s, o) ==
    IF MapLen(s.set) > MapLen(o.set) THEN FALSE
    ELSE \A e \in ElemsIn(s) : EngineContains(o, e)

\* other.(*T): the assertion holds when the operand has the receiver's type
Asserts(s, other) == TypeOf(other) = TypeOf(s)

\* the deferred RUnlocks run whether the engine call returns or panics
WithLocks(acquired, released, r) == [r EXCEPT !.held = @ + acquired - released]

RECURSIVE Invoke(_, _, _)
\* s.op(other) for a Set value s and a Set value other
Invoke(op, s, other) ==
    IF s.sync
    THEN \* safeSet
        CASE op \in {"Diff", "SymmetricDiff", "Intersect"} ->
                IF ~Asserts(s, other) THEN Panicked
                ELSE LET r == Invoke(op, Inner(s), Inner(other))
                     IN  WithLocks(2, 2, IF r.panic THEN r ELSE ReturnsSet(Wrap(r.obj)))
          [] op = "Union" ->
                IF ~Asserts(s, other) THEN Panicked
                ELSE WithLocks(2, 2, Invoke(op, Inner(s), Inner(other)))
          [] op \in {"Equal", "IsSubset", "IsProperSubset"} ->
                IF ~Asserts(s, other) THEN Panicked
                ELSE WithLocks(2, 2, Invoke(op, Inner(s), Inner(other)))
          [] op = "IsSuperset" -> Invoke("IsSubset", other, s)
          [] op = "IsProperSuperset" -> Invoke("IsProperSubset", other, s)
          [] op = "Clone" ->
                WithLocks(1, 1, ReturnsSet(Wrap(Invoke(op, Inner(s), Inner(s)).obj)))
    ELSE \* unsafeSimpleSet, unsafeResolvingSet, unsafePrioritySet
        CASE op = "Diff" ->
                IF ~Asserts(s, other) THEN Panicked ELSE ReturnsSet(EngineDiff(s, other))
          [] op = "SymmetricDiff" ->
                IF ~Asserts(s, other) THEN Panicked
                ELSE ReturnsSet(EngineSymmetricDiff(s, other))
          [] op = "Intersect" ->
                IF ~Asserts(s, other) THEN Panicked
                ELSE ReturnsSet(EngineIntersect(s, other))
          [] op = "Union" ->
                IF ~Asserts(s, other) THEN Panicked ELSE ReturnsSet(EngineUnion(s, other))
          [] op = "Equal" ->
                IF ~Asserts(s, other) THEN Panicked ELSE ReturnsBool(EngineEqual(s, other))
          [] op = "IsSubset" ->
                IF ~Asserts(s, other) THEN Panicked
                ELSE ReturnsBool(EngineIsSubset(s, other))
          [] op = "IsProperSubset" ->
                IF MapLen(s.set) < MapLen(other.set)
                THEN Invoke("IsSubset", s, other)
                ELSE ReturnsBool(FALSE)
          [] op = "IsSuperset" -> Invoke("IsSubset", other, s)
          [] op = "IsProperSuperset" ->
                IF MapLen(s.set) > MapLen(other.set)
                THEN Invoke("IsSuperset", s, other)
                ELSE ReturnsBool(FALSE)
          [] op = "Clone" -> ReturnsSet(EngineClone(s))

(***************************************************************************)
(* Calls on Set values of mixed variants: x and y are constructed, a first *)
(* call is made on them, and a second call uses the Set the first returned.*)
(***************************************************************************)
\* the items of x and y: one per ID
mixItems == {e \in testItems : e.Importance = 1}

Variants == {<<sync, k>> : sync \in BOOLEAN, k \in {"simple", "resolving"}}

\* the constructors, and the Add that fills a set of the given variant
Construct(variant, S) ==
    NewObj(variant[1], variant[2], variant[2] = "resolving",
           EngineAdd(variant[2], variant[2] = "resolving", EmptyMap, RangeOrder(S)).set)

InitMix ==
    /\ NoEngine
    /\ NoSafe
    /\ \E vx \in Variants, vy \in Variants, sx \in SUBSET mixItems, sy \in SUBSET mixItems :
          /\ mx = Construct(vx, sx)
          /\ my = Construct(vy, sy)
    /\ mu = NoObj
    /\ mcalls = <<>>
    /\ NoIter
    /\ NoHeap

Operand(name) ==
    CASE name = "x" -> mx
      [] name = "y" -> my
      [] name = "u" -> mu

\* the record of one call
CallRecord(op, r, o) ==
    LET res == Invoke(op, Operand(r), Operand(o))
    IN  [op |-> op, recv |-> r, other |-> o, res |-> res]

\* x.op(y), y.op(x), x.op(x), y.op(y), or a Clone
FirstCall ==
    /\ mcalls = <<>>
    /\ \E op \in BinaryOps \cup {"Clone"}, r \in {"x", "y"}, o \in {"x", "y"} :
          /\ op = "Clone" => o = r
          /\ LET c == CallRecord(op, r, o)
             IN  /\ mcalls' = <<c>>
                 /\ mu' = IF c.res.isSet THEN c.res.obj ELSE NoObj
    /\ UNCHANGED <<mx, my, engineVars, safeVars, iterVars, heapVars>>

\* the Set the first call returned, as receiver or as operand of a second call
SecondCall ==
    /\ Len(mcalls) = 1
    /\ mcalls[1].res.isSet
    /\ \E op \in BinaryOps, z \in {"x", "y"}, asReceiver \in BOOLEAN :
          LET c == IF asReceiver THEN CallRecord(op, "u", z) ELSE CallRecord(op, z, "u")
          IN  mcalls' = Append(mcalls, c)
    /\ UNCHANGED <<mx, my, mu, engineVars, safeVars, iterVars, heapVars>>

NextMix == FirstCall \/ SecondCall

SpecMix == InitMix /\ [][NextMix]_vars

(***************************************************************************)
(* The algebra of the engines: x and y are two engines of one type, built  *)
(* by a constructor and one Add, and one method is called on them.         *)
(***************************************************************************)
\* the argument lists of a call on an engine of kind k
ListsFor(k) == IF k = "simple" THEN IntArgLists ELSE ItemArgLists

\* a new engine of kind k (with or without a resolver / comparator), then Add(v...)
Built(k, has, v) == NewObj(FALSE, k, has, EngineAdd(k, has, EmptyMap, v).set)

\* the kinds of engine with the policies they can be constructed with
Policies ==
    {<<"simple", FALSE>>} \cup {<<k, has>> : k \in {"resolving", "priority"}, has \in BOOLEAN}

InitAlg ==
    /\ NoEngine
    /\ NoSafe
    /\ NoIter
    /\ NoHeap
    /\ \E px \in Policies, py \in Policies :
          /\ px[1] = py[1]
          /\ \E vx \in ListsFor(px[1]), vy \in ListsFor(py[1]) :
                /\ mx = Built(px[1], px[2], vx)
                /\ my = Built(py[1], py[2], vy)
    /\ mu = NoObj
    /\ mcalls = <<>>

NextAlg == FirstCall

SpecAlg == InitAlg /\ [][NextAlg]_vars

(***************************************************************************)
(* Contains on an engine built by a constructor and one Add.               *)
(***************************************************************************)
\* Contains(v...): false at the first argument that is not contained
EngineContainsAll(x, v) == \A i \in 1..Len(v) : EngineContains(x, v[i])

InitContains ==
    /\ NoEngine
    /\ NoSafe
    /\ NoIter
    /\ NoHeap
    /\ \E px \in Policies : \E vx \in ListsFor(px[1]) : mx = Built(px[1], px[2], vx)
    /\ my = NoObj
    /\ mu = NoObj
    /\ mcalls = <<>>

\* x.Contains(v...)
ContainsCall ==
    /\ mcalls = <<>>
    /\ \E v \in ListsFor(mx.kind) :
          mcalls' = <<[op |-> "Contains", recv |-> "x", other |-> "x", args |-> v,
                       res |-> ReturnsBool(EngineContainsAll(mx, v))]>>
    /\ UNCHANGED <<mx, my, mu, engineVars, safeVars, iterVars, heapVars>>

NextContains == ContainsCall

SpecContains == InitContains /\ [][NextContains]_vars

(***************************************************************************)
(* Properties of the unsynchronized engines.                               *)
(***************************************************************************)
\* C1: after any sequence of Add, Remove, Pop and Clear the keys stored are
\* exactly the reference key set (added since last deleted; Remove deletes
\* whatever the payload), each present key holds exactly one element, and
\* Len() is the number of distinct present keys.
KeysMatchReference ==
    /\ DOMAIN set = refKeys
    /\ \A k \in refKeys :
           Cardinality({e \in EngineElems(kind, set) : KeyOf(kind, e) = k}) = 1
    /\ Cardinality(EngineElems(kind, set)) = Cardinality(refKeys)
    /\ EngineLen(set) = Cardinality(refKeys)

\* a Remove whose argument met its key stored with another payload has deleted it
RemovedDespitePayload ==
    /\ lastOp = "Remove"
    /\ mismatch
    /\ EngineLen(set) < prevLen

\* C2: Add returns true iff one of its elements inserted a new key or
\* replaced a stored element (false for an empty argument list too).
AddReportsChange ==
    [][lastOp' = "Add" =>
         (ret' = (\/ DOMAIN set' # DOMAIN set
                  \/ \E k \in (DOMAIN set) \cap (DOMAIN set') : set'[k] # set[k]))]_vars

\* an Add that only replaced a stored element returned true
ReplacingAddReturnedTrue ==
    /\ lastOp = "Add"
    /\ kind = "resolving"
    /\ ret = TRUE
    /\ prevLen = EngineLen(set)

\* the positions of the insertion sequence that hold key k
PositionsOf(k) == {i \in 1..Len(hist) : keyGetter(hist[i]) = k}

\* the earliest position holding key k with the greatest Importance inserted for k
EarliestBest(k) ==
    CHOOSE i \in PositionsOf(k) :
        /\ \A j \in PositionsOf(k) : hist[j].Importance <= hist[i].Importance
        /\ \A j \in PositionsOf(k) :
               hist[j].Importance = hist[i].Importance => i <= j

\* C3: with the 'replace iff incoming.Importance > existing.Importance'
\* policy and Adds only, every key holds the earliest-inserted element of
\* maximal Importance among the inserted elements of that key, and the set
\* has as many elements as distinct keys were inserted.
ContentsFollowInsertions ==
    /\ DOMAIN set = {keyGetter(hist[i]) : i \in 1..Len(hist)}
    /\ \A k \in DOMAIN set : set[k] = hist[EarliestBest(k)]
    /\ EngineLen(set) = Cardinality({keyGetter(hist[i]) : i \in 1..Len(hist)})

\* a key was inserted three times: low, then high, then high again under another Name
TieAfterReplacement ==
    /\ kind = "resolving"
    /\ Len(hist) = 3
    /\ hist[1].ID = hist[2].ID /\ hist[2].ID = hist[3].ID
    /\ hist[1].Importance < hist[2].Importance
    /\ hist[2].Importance = hist[3].Importance
    /\ hist[2].Name # hist[3].Name

\* C10: a keyed set constructed without a resolution function keeps, for
\* every present key, the first element added since the key was last absent.
FirstWriteWins ==
    (kind # "simple" /\ ~hasResolver) =>
        /\ DOMAIN set = DOMAIN first
        /\ \A k \in DOMAIN set : set[k] = first[k]

\* an Add met a present key with another payload and changed nothing
CollidingAddIgnored ==
    /\ kind = "resolving"
    /\ ~hasResolver
    /\ lastOp = "Add"
    /\ mismatch
    /\ ret = FALSE
    /\ \E k \in DOMAIN set : set[k].Importance < MaxVal

(***************************************************************************)
(* Properties of the synchronized wrapper.                                 *)
(***************************************************************************)
InEngine(t) == pc[t] \in {"engine", "engine2"}

\* the sets the engine call of thread t reads or writes
Touches(t) == IF call[t].bin THEN {call[t].s, call[t].o} ELSE {call[t].s}

\* C5: every method holds the set's lock around its engine call (Add,
\* Remove, Pop, Clear the exclusive lock, the read-only methods the shared
\* one), so the engine call of a mutating method overlaps no other engine
\* call on the same set, and a thread holds no lock once its method returned.
LockDiscipline ==
    /\ \A t \in DOMAIN pc :
          InEngine(t) =>
             IF call[t].mut
             THEN rw[call[t].s].writer = t /\ rw[call[t].s].locked
             ELSE rw[call[t].s].readers[t] > 0
    /\ \A t1, t2 \in DOMAIN pc :
          (t1 # t2 /\ InEngine(t1) /\ call[t1].mut /\ InEngine(t2))
             => call[t1].s \notin Touches(t2)
    /\ \A t \in DOMAIN pc :
          pc[t] = "idle" => \A o \in Objs : ~Holds(t, o) /\ rw[o].writer # t

\* a mutating engine call runs on a set while a binary method of another
\* thread waits for that set's shared lock
WriterInEngineReaderWaiting ==
    \E t1, t2 \in DOMAIN pc :
        /\ t1 # t2
        /\ pc[t1] = "engine" /\ call[t1].mut
        /\ pc[t2] = "o.RLock" /\ call[t2].o = call[t1].s

\* C7: a binary method holds the shared lock of both operands from before
\* its engine call's first read to after its last, and between the two no
\* write takes effect on either operand.
OperandsStableDuringBinary ==
    \A t \in DOMAIN pc :
        (InEngine(t) /\ call[t].bin) =>
            /\ rw[call[t].s].readers[t] > 0
            /\ rw[call[t].o].readers[t] > 0
            /\ pc[t] = "engine2" =>
                  /\ snap[t].s = sets[call[t].s]
                  /\ snap[t].o = sets[call[t].o]

\* a binary engine call is between its first and last read of two distinct
\* operands, the second one non-empty, while a writer waits for that operand
BinaryReadingWriterWaiting ==
    \E t1, t2 \in DOMAIN pc :
        /\ pc[t1] = "engine2" /\ call[t1].s # call[t1].o
        /\ pc[t2] = "Lock" /\ call[t2].s = call[t1].o
        /\ sets[call[t1].o] # EmptyMap

\* both binary calls hold their receiver and wait for their operand, and a
\* writer waits on each set
OpposedStuck ==
    /\ role = OpposedRoles
    /\ pc[1] = "o.RLock" /\ pc[2] = "o.RLock"
    /\ pc[3] = "Lock" /\ pc[4] = "Lock"

\* C8: A.op(B) and B.op(A) from two threads, interleaved with writers on
\* the two sets, can deadlock: once each binary call holds its receiver's
\* shared lock and a writer waits on each set, no thread can ever proceed.
OpposedOrderDeadlocks == OpposedStuck => ~ENABLED NextOpposed

(***************************************************************************)
(* Properties of calls across Set values.                                  *)
(***************************************************************************)
SetReturning == {"Clone", "Diff", "SymmetricDiff", "Union", "Intersect"}

\* both operands of call c are safeSets of one type
OnSynchronized(c) ==
    /\ Operand(c.recv).sync
    /\ Asserts(Operand(c.recv), Operand(c.other))

KeysIn(x) == DOMAIN x.set

\* C4: on synchronized sets, Clone, Diff, SymmetricDiff, Union and Intersect
\* return a new synchronized wrapper, which can be receiver or operand of a
\* further call with a synchronized set; a.Union(b).Union(c) completes and
\* holds the keys of all three.
AlgebraReturnsSynchronized ==
    /\ \A i \in 1..Len(mcalls) :
          (i = 1 /\ mcalls[i].op \in SetReturning /\ OnSynchronized(mcalls[i]))
             => (~mcalls[i].res.panic /\ mcalls[i].res.obj.sync)
    /\ (/\ Len(mcalls) = 2
        /\ mcalls[1].op = "Union" /\ OnSynchronized(mcalls[1])
        /\ mcalls[2].op = "Union" /\ mcalls[2].recv = "u"
        /\ TypeOf(Operand(mcalls[2].other)) = TypeOf(Operand(mcalls[1].recv)))
          => /\ ~mcalls[2].res.panic
             /\ KeysIn(mcalls[2].res.obj) =
                   KeysIn(Operand(mcalls[1].recv)) \cup KeysIn(Operand(mcalls[1].other))
                      \cup KeysIn(Operand(mcalls[2].other))

\* C9: a binary method called with operands of different concrete variants
\* always fails with a type-mismatch panic, whatever the operands hold, and
\* leaves no lock held.
MixedVariantsPanic ==
    \A i \in 1..Len(mcalls) :
        (/\ mcalls[i].op \in BinaryOps
         /\ TypeOf(Operand(mcalls[i].recv)) # TypeOf(Operand(mcalls[i].other)))
           => (mcalls[i].res.panic /\ mcalls[i].res.held = 0)

(***************************************************************************)
(* Properties of Iter on a safeSet.                                        *)
(***************************************************************************)
Range(q) == {q[i] : i \in DOMAIN q}

\* C6: Iter copies what it needs under the read lock: the elements delivered
\* on the channel are exactly the set's contents at the Iter call, and the
\* producer never reads the map while Add, Remove, Pop or Clear holds the
\* write lock.
IterDeliversSnapshot ==
    /\ ~raced
    /\ gpc # "fatal"
    /\ (gpc = "done" /\ ch = <<>>) =>
          /\ Range(delivered) = iterSnap
          /\ Len(delivered) = Cardinality(iterSnap)

(***************************************************************************)
(* Properties of the engines' algebra.                                     *)
(***************************************************************************)
\* the first call was s.op(o) and returned normally
Called(op) == Len(mcalls) >= 1 /\ mcalls[1].op = op /\ ~mcalls[1].res.panic

\* its receiver, its operand and the Set it returned
Recv == Operand(mcalls[1].recv)
Other == Operand(mcalls[1].other)
Result == mcalls[1].res.obj

\* the element an Add of incoming leaves under key k of a set of a's kind
\* and policy that holds existing under k
AddOnto(a, k, existing, incoming) ==
    EngineAdd(a.kind, a.has, MapPut(EmptyMap, k, existing), <<incoming>>).set[k]

Max(a, b) == IF a > b THEN a ELSE b

\* C11: A.Union(B) holds exactly the keys of A or B; a key of both holds the
\* element A's policy selects when B's element is added onto A's; so its Len
\* is at least the larger Len, and for simple sets A.Union(B) and B.Union(A)
\* have the same elements.
UnionResolvesAsAdd ==
    Called("Union") =>
        /\ mcalls[1].res.isSet
        /\ KeysIn(Result) = KeysIn(Recv) \cup KeysIn(Other)
        /\ \A k \in KeysIn(Result) :
              Result.set[k] =
                 IF k \notin KeysIn(Other) THEN Recv.set[k]
                 ELSE IF k \notin KeysIn(Recv) THEN Other.set[k]
                 ELSE AddOnto(Recv, k, Recv.set[k], ElemAt(Other.kind, Other.set, k))
        /\ MapLen(Result.set) >= Max(MapLen(Recv.set), MapLen(Other.set))
        /\ Recv.kind = "simple" =>
              ElemsIn(Result) = ElemsIn(Invoke("Union", Other, Recv).obj)

\* a Union in which the operand's element replaced the receiver's under a
\* key of both
UnionReplacedOnCollision ==
    /\ Called("Union")
    /\ \E k \in KeysIn(Recv) \cap KeysIn(Other) :
          /\ Recv.set[k] # Other.set[k]
          /\ Result.set[k] = Other.set[k]

\* C12: A.Intersect(B) holds exactly the keys of both A and B, each with the
\* element of the operand with fewer elements (of A when the sizes are equal);
\* so A.Intersect(B) and B.Intersect(A) have the same keys and cardinality.
IntersectKeepsSharedKeys ==
    Called("Intersect") =>
        /\ KeysIn(Result) = KeysIn(Recv) \cap KeysIn(Other)
        /\ \A k \in KeysIn(Result) :
              Result.set[k] =
                 IF MapLen(Other.set) < MapLen(Recv.set) THEN Other.set[k] ELSE Recv.set[k]
        /\ KeysIn(Result) = KeysIn(Invoke("Intersect", Other, Recv).obj)
        /\ MapLen(Result.set) = MapLen(Invoke("Intersect", Other, Recv).obj.set)

\* the elements of a whose key is absent from b
WithoutKeysOf(a, b) == {e \in ElemsIn(a) : KeyOf(a.kind, e) \notin KeysIn(b)}

\* C13: A.Diff(B) holds exactly the elements of A whose key is absent from B,
\* A.Diff(B) and B.Diff(A) have disjoint keys, and A.SymmetricDiff(B) holds
\* exactly the elements of A.Diff(B) and of B.Diff(A).
DiffsPartitionByKey ==
    /\ Called("Diff") =>
          /\ ElemsIn(Result) = WithoutKeysOf(Recv, Other)
          /\ KeysIn(Result) \cap KeysIn(Invoke("Diff", Other, Recv).obj) = {}
    /\ Called("SymmetricDiff") =>
          ElemsIn(Result) = ElemsIn(Invoke("Diff", Recv, Other).obj)
                               \cup ElemsIn(Invoke("Diff", Other, Recv).obj)

\* key-set inclusion
KeysSubset(a, b) == KeysIn(a) \subseteq KeysIn(b)

\* C14: Equal is equal cardinality and inclusion of keys, payloads not
\* compared, and is symmetric; IsSubset is inclusion of keys, IsSuperset its
\* converse, and the proper ones hold iff the inclusion holds and the
\* cardinalities differ.
RelationsCompareKeys ==
    /\ Called("Equal") =>
          /\ mcalls[1].res.bool =
                (MapLen(Recv.set) = MapLen(Other.set) /\ KeysSubset(Recv, Other))
          /\ mcalls[1].res.bool = Invoke("Equal", Other, Recv).bool
    /\ Called("IsSubset") =>
          /\ mcalls[1].res.bool = KeysSubset(Recv, Other)
          /\ (mcalls[1].res.bool /\ Invoke("IsSubset", Other, Recv).bool)
                => Invoke("Equal", Recv, Other).bool
    /\ Called("IsSuperset") => mcalls[1].res.bool = KeysSubset(Other, Recv)
    /\ Called("IsProperSubset") =>
          mcalls[1].res.bool =
             (KeysSubset(Recv, Other) /\ MapLen(Recv.set) # MapLen(Other.set))
    /\ Called("IsProperSuperset") =>
          mcalls[1].res.bool =
             (KeysSubset(Other, Recv) /\ MapLen(Recv.set) # MapLen(Other.set))

\* C16: Contains returns true iff the key of every argument is present in
\* the set (true for no arguments); whether a present key's stored element
\* equals the argument does not matter.
ContainsTestsKeys ==
    Called("Contains") =>
        mcalls[1].res.bool =
           \A i \in 1..Len(mcalls[1].args) :
               KeyOf(Recv.kind, mcalls[1].args[i]) \in KeysIn(Recv)

(***************************************************************************)
(* Properties of Pop.                                                      *)
(***************************************************************************)
\* the set under test as a Set value
AsObj(m) == NewObj(FALSE, kind, hasResolver, m)

\* C15: Pop on an empty set returns (zero value, false) and leaves the set
\* empty; Pop on a non-empty set returns (e, true) for a stored element e,
\* after which Len is one less, e is not contained, and every other key
\* holds the element it held.
PopRemovesOne ==
    [][lastOp' = "Pop" =>
          IF set = EmptyMap
          THEN /\ ret' = [elem |-> None, found |-> FALSE]
               /\ set' = EmptyMap
          ELSE /\ ret'.found
               /\ ret'.elem \in EngineElems(kind, set)
               /\ EngineLen(set') = EngineLen(set) - 1
               /\ ~EngineContains(AsObj(set'), ret'.elem)
               /\ \A k \in DOMAIN set \ {KeyOf(kind, ret'.elem)} :
                     k \in DOMAIN set' /\ set'[k] = set[k]]_vars

\* a Pop returned an element and left others in the set
PoppedOneOfSeveral ==
    /\ lastOp = "Pop"
    /\ ret.found
    /\ set # EmptyMap
    /\ prevLen = EngineLen(set) + 1

(***************************************************************************)
(* The maps behind the engines.  An engine refers to its map; a method     *)
(* writes only the maps it names.  x and y are two engines of one type, r  *)
(* is the engine the last Clone, Diff, SymmetricDiff, Intersect or Union   *)
(* returned.                                                               *)
(***************************************************************************)
HeapNames == {"x", "y", "r"}

\* an engine: its policies and the address of its map
Ref(k, has, a) == [kind |-> k, has |-> has, addr |-> a]

NilRef == Ref("none", FALSE, "nil")

\* the engine of a reference as a Set value
Deref(ref) == NewObj(FALSE, ref.kind, ref.has, heap[ref.addr])

\* the map of the engine called n
MapOf(n) == heap[hrefs[n].addr]

\* the elements the engines are mutated with
heapItems(k) == IF k = "simple" THEN Elems ELSE {e \in testItems : e.ID \in Elems}

InitHeap ==
    /\ NoEngine
    /\ NoSafe
    /\ NoMix
    /\ NoIter
    /\ \E k \in Kinds :
          hrefs = [x |-> Ref(k, k # "simple", "ax"), y |-> Ref(k, k # "simple", "ay"),
                   r |-> NilRef]
    /\ heap = [a \in {"ax", "ay", "ar"} |-> EmptyMap]
    /\ hlast = [kind |-> "new", target |-> "none"]

\* a result that lives in the receiver's map
NewAddrOfReceiver(s) == s.addr

\* make(map[U]T) in the constructor a method of s builds its result with: a
\* map that is neither operand's (the map of the previous result is dropped)
NewAddr(s) == "ar"

\* a Clone that returns the receiver's map
CloneAddrOfReceiver(s) == s.addr

\* the map Clone builds its result in
CloneAddr(s) == NewAddr(s)

\* s.op(o) for a method that returns a Set: the result is built in a new map
CallReturning(ops) ==
    \E op \in ops, s \in {"x", "y"}, o \in {"x", "y"} :
        LET res == Invoke(op, Deref(hrefs[s]), Deref(hrefs[o]))
            a == IF op = "Clone" THEN CloneAddr(hrefs[s]) ELSE NewAddr(hrefs[s])
        IN  /\ heap' = [heap EXCEPT ![a] = res.obj.set]
            /\ hrefs' = [hrefs EXCEPT !.r = Ref(res.obj.kind, res.obj.has, a)]
            /\ hlast' = [kind |-> "call", target |-> s]
            /\ UNCHANGED <<engineVars, safeVars, mixVars, iterVars>>

\* Clone
CloneCall == CallReturning({"Clone"})

\* Clone, Diff, SymmetricDiff, Intersect, Union
AlgebraCall == CallReturning(SetReturning)

\* the methods that return no Set and write no map
ReadOnly ==
    (BinaryOps \ SetReturning) \cup {"Contains", "Len", "Each", "ToSlice", "String"}

ReadCall ==
    /\ \E op \in ReadOnly, s \in {"x", "y"}, o \in {"x", "y"} :
          hlast' = [kind |-> "read", target |-> s]
    /\ UNCHANGED <<heap, hrefs, engineVars, safeVars, mixVars, iterVars>>

\* what Add(e), Remove(e), Pop() and Clear() can make of the map m
Mutations(k, has, m) ==
    {EngineAdd(k, has, m, <<e>>).set : e \in heapItems(k)}
       \cup {EngineRemove(k, m, <<e>>) : e \in heapItems(k)}
       \cup {EngineRemove(k, m, <<ElemAt(k, m, x)>>) : x \in DOMAIN m}
       \cup {EngineClear}

\* Add, Remove, Pop or Clear on x, y or r writes that engine's map
HeapMutate ==
    /\ \E t \in HeapNames :
          /\ hrefs[t] # NilRef
          /\ \E m \in Mutations(hrefs[t].kind, hrefs[t].has, MapOf(t)) :
                heap' = [heap EXCEPT ![hrefs[t].addr] = m]
          /\ hlast' = [kind |-> "mutate", target |-> t]
    /\ UNCHANGED <<hrefs, engineVars, safeVars, mixVars, iterVars>>

NextClone == CloneCall \/ HeapMutate

SpecClone == InitHeap /\ [][NextClone]_vars

NextHeap == AlgebraCall \/ ReadCall \/ HeapMutate

SpecHeap == InitHeap /\ [][NextHeap]_vars

(***************************************************************************)
(* Properties of Clone and of the maps of results.                         *)
(***************************************************************************)
\* C17: Clone returns a set with the receiver's policies and key -> element
\* pairs (so it is Equal to the receiver and of equal Len), and afterwards
\* Add, Remove, Pop and Clear on the clone leave the original's map as it
\* is, and those on the original the clone's.
CloneIsIndependentCopy ==
    /\ [](hlast.kind = "call" =>
            /\ hrefs.r.kind = hrefs[hlast.target].kind
            /\ hrefs.r.has = hrefs[hlast.target].has
            /\ MapOf("r") = MapOf(hlast.target)
            /\ Invoke("Equal", Deref(hrefs.r), Deref(hrefs[hlast.target])).bool
            /\ MapLen(MapOf("r")) = MapLen(MapOf(hlast.target)))
    /\ [][(hlast'.kind = "mutate" /\ hrefs.r # NilRef) =>
             IF hlast'.target = "r"
             THEN MapOf("x")' = MapOf("x") /\ MapOf("y")' = MapOf("y")
             ELSE MapOf("r")' = MapOf("r")]_vars

\* the clone was changed and now differs from both originals
CloneChangedAlone ==
    /\ hlast = [kind |-> "mutate", target |-> "r"]
    /\ MapOf("x") # EmptyMap
    /\ MapOf("r") # MapOf("x")
    /\ MapOf("r") # MapOf("y")

\* C19: no binary or read-only method changes the map of its receiver or of
\* its operand, and the set Diff, SymmetricDiff, Union, Intersect or Clone
\* returns shares no map with either input: changing the result leaves both
\* inputs as they are.
OperationsLeaveInputs ==
    /\ [](hrefs.r # NilRef => hrefs.r.addr \notin {hrefs.x.addr, hrefs.y.addr})
    /\ [][(\/ hlast'.kind \in {"call", "read"}
           \/ hlast'.kind = "mutate" /\ hlast'.target = "r") =>
             MapOf("x")' = MapOf("x") /\ MapOf("y")' = MapOf("y")]_vars

\* a result of two non-empty inputs was changed afterwards
ResultChangedAfterwards ==
    /\ hlast = [kind |-> "mutate", target |-> "r"]
    /\ MapOf("x") # EmptyMap
    /\ MapOf("y") # EmptyMap
    /\ MapOf("r") # EmptyMap

(***************************************************************************)
(* Properties of a binary method on a safeSet and itself.                  *)
(***************************************************************************)
\* C18: A.op(A) on a safeSet always completes, also while another thread
\* calls Add, Remove, Pop or Clear on A: the two shared-lock acquisitions
\* never leave the caller and the writer blocked forever, so in every state
\* some thread can take a step.
SelfOperandCompletes == ENABLED NextSelf

=============================================================================
